---- MODULE Spec2Model ----
(***************************************************************************)
(* Model of tweet_sentiment_to_csv.py: main() runs scraper(), filter() and *)
(* write_to_csv() in sequence.  Python values are tagged pairs             *)
(* <<type, payload>>; Python str payloads are TLA+ strings, and Chars      *)
(* gives the characters of the strings the regular expressions read.       *)
(***************************************************************************)
EXTENDS Integers, Sequences, FiniteSets, TLC

(* ---------------------------------------------------------------------- *)
(* Bounds                                                                  *)
(* ---------------------------------------------------------------------- *)

\* largest value of the -number/-n argument explored
MaxN == 2

(* ---------------------------------------------------------------------- *)
(* Python values                                                           *)
(* ---------------------------------------------------------------------- *)

None == <<"NoneType", "None">>

Str(s) == <<"str", s>>

\* a float, held in hundredths
Float(h) == <<"float", h>>

IsStr(v) == v[1] = "str"

\* dict.get(key): the value, or None when the key is absent
Get(d, k) == IF k \in DOMAIN d THEN d[k] ELSE None

\* dict.update(e)
Update(d, e) == [k \in (DOMAIN d) \cup (DOMAIN e) |-> IF k \in DOMAIN e THEN e[k] ELSE d[k]]

\* dict(tweet) of a tuple of (key, value) pairs; a later pair wins
DictOf(t) ==
    [k \in {t[i][1] : i \in DOMAIN t} |->
        LET last == CHOOSE i \in DOMAIN t :
                        /\ t[i][1] = k
                        /\ \A j \in DOMAIN t : t[j][1] = k => j <= i
        IN  t[last][2]]

(* ---------------------------------------------------------------------- *)
(* Module-level configuration                                              *)
(* ---------------------------------------------------------------------- *)

my_queries == <<"southern accent -filter:retweets", "new york accent -filter:retweets",
                "californian accent -filter:retweets">>

metadata_fields_Swapped == <<"created_at", "name", "location", "screen_name", "description">>

metadata_fields == <<"created_at", "name", "screen_name", "location", "description">>

filter_terms == <<"dc", "DMV", "georgetown", "gtown", "GU", "37th and O", "202">>

(* ---------------------------------------------------------------------- *)
(* Characters of strings, and the re module                                *)
(* ---------------------------------------------------------------------- *)

\* the characters of a str, for the strings that are searched or searched for
Chars(s) ==
    CASE s = "dc" -> <<"d", "c">>
      [] s = "DMV" -> <<"D", "M", "V">>
      [] s = "georgetown" -> <<"g", "e", "o", "r", "g", "e", "t", "o", "w", "n">>
      [] s = "gtown" -> <<"g", "t", "o", "w", "n">>
      [] s = "GU" -> <<"G", "U">>
      [] s = "37th and O" -> <<"3", "7", "t", "h", " ", "a", "n", "d", " ", "O">>
      [] s = "202" -> <<"2", "0", "2">>
      [] s = "Washington DC" -> <<"W", "a", "s", "h", "i", "n", "g", "t", "o", "n", " ", "D", "C">>
      [] s = "" -> <<>>
      [] s = "I live in DC" -> <<"I", " ", "l", "i", "v", "e", " ", "i", "n", " ", "D", "C">>
      [] s = "dcmetro" -> <<"d", "c", "m", "e", "t", "r", "o">>
      [] s = "argue" -> <<"a", "r", "g", "u", "e">>
      [] s = "GU student" -> <<"G", "U", " ", "s", "t", "u", "d", "e", "n", "t">>
      [] s = "Seattle" -> <<"S", "e", "a", "t", "t", "l", "e">>
      [] s = "just a gal" -> <<"j", "u", "s", "t", " ", "a", " ", "g", "a", "l">>

UpperCase == <<"A", "B", "C", "D", "E", "F", "G", "H", "I", "J", "K", "L", "M", "N", "O", "P", "Q", "R", "S", "T", "U", "V", "W", "X", "Y", "Z">>

LowerCase == <<"a", "b", "c", "d", "e", "f", "g", "h", "i", "j", "k", "l", "m", "n", "o", "p", "q", "r", "s", "t", "u", "v", "w", "x", "y", "z">>

Digits == <<"0", "1", "2", "3", "4", "5", "6", "7", "8", "9">>

Range(f) == {f[i] : i \in DOMAIN f}

\* the characters \w matches
WordChars == Range(UpperCase) \cup Range(LowerCase) \cup Range(Digits) \cup {"_"}

\* \w of the re module
IsWord(c) == c \in WordChars

\* re.I: characters compare by their lower-case form
Fold(c) ==
    IF c \in Range(UpperCase)
    THEN LowerCase[CHOOSE i \in DOMAIN UpperCase : UpperCase[i] = c]
    ELSE c

\* the pattern  term  with no \b around it
Pattern_NoBoundary(f) == [i \in 1..Len(Chars(f)) |-> <<"lit", Chars(f)[i]>>]

\* r'\b' + f + r'\b' compiled: a boundary assertion, the literal characters
\* of f (no term holds a regular-expression metacharacter), a boundary
Pattern(f) ==
    <<<<"b", "">>>> \o [i \in 1..Len(Chars(f)) |-> <<"lit", Chars(f)[i]>>] \o <<<<"b", "">>>>

\* \b at offset pos of s: exactly one of the characters around pos is \w
AtBoundary(s, pos) ==
    LET before == pos >= 1 /\ IsWord(s[pos])
        after  == pos < Len(s) /\ IsWord(s[pos + 1])
    IN  before # after

\* the pattern p matches s at offset pos: every element of p holds at the
\* offset the literals before it lead to (an assertion takes no character, a
\* literal takes one)
MatchAt(p, s, pos) ==
    \A k \in DOMAIN p :
        LET off == pos + Cardinality({j \in 1..(k - 1) : p[j][1] = "lit"})
        IN  IF p[k][1] = "b"
            THEN AtBoundary(s, off)
            ELSE off < Len(s) /\ Fold(s[off + 1]) = Fold(p[k][2])

\* the strings Chars knows
Searchable ==
    {"dc", "DMV", "georgetown", "gtown", "GU", "37th and O", "202", "Washington DC", "",
     "I live in DC", "dcmetro", "argue", "GU student", "Seattle", "just a gal"}

\* whether the pattern of term f matches somewhere in s, worked out once for
\* every term and string
Found ==
    [f \in Range(filter_terms), s \in Searchable |->
        \E pos \in 0..Len(Chars(s)) : MatchAt(Pattern(f), Chars(s), pos)]

\* re.search(r'\b' + f + r'\b', v, re.I): "Match", "NoMatch", or "TypeError"
\* when v is not a str
re_search(f, v) ==
    IF ~IsStr(v) THEN "TypeError"
    ELSE IF Found[f, v[2]] THEN "Match" ELSE "NoMatch"

(* ---------------------------------------------------------------------- *)
(* What the search service can return                                      *)
(* ---------------------------------------------------------------------- *)

\* status._json of one search result: the tweet and, nested, its author
RawStatus(id, created_at, screen_name, location, description, full_text) ==
    [id        |-> <<"int", id>>,
     full_text |-> Str(full_text),
     lang      |-> Str("en"),
     user      |-> [created_at  |-> Str(created_at),
                    name        |-> Str("Ann"),
                    screen_name |-> Str(screen_name),
                    location    |-> location,
                    description |-> description,
                    verified    |-> <<"bool", "False">>]]

\* the tweets the service holds; location and description are nullable
Statuses ==
    { RawStatus(1, "Mon", "ann", Str("Washington DC"), Str(""), "y'all are great"),
      RawStatus(2, "Mon", "ann", Str("Washington DC"), Str(""), "y'all are great"),
      RawStatus(3, "Tue", "ann", Str("Washington DC"), Str(""), "y'all are great"),
      RawStatus(4, "Mon", "bea", Str("dcmetro"), Str("argue"), "hello"),
      RawStatus(5, "Mon", "cy", Str("argue"), Str("GU student"), "hello"),
      RawStatus(6, "Mon", "di", None, Str("I live in DC"), "hello"),
      RawStatus(7, "Mon", "ed", Str("I live in DC"), None, "hello"),
      RawStatus(8, "Mon", "flo", Str("Seattle"), None, "hello") }

\* the sequences of at most n elements of S
SeqsUpTo(S, n) == UNION {[1..k -> S] : k \in 0..n}

(* ---------------------------------------------------------------------- *)
(* get_data, the filter condition, sentiment_saver                         *)
(* ---------------------------------------------------------------------- *)

\* get_data(status), as the tuple scraper() makes of the returned items
get_data(status) ==
    LET user == Get(status, "user")
        data == [i \in 1..Len(metadata_fields) |->
                    <<metadata_fields[i], Get(user, metadata_fields[i])>>]
    IN  Append(data, <<"text", Get(status, "full_text")>>)

\* all_tweets.add(tuple(t)) that keeps one tweet per text
SetAdd_ByText(tweets, t) ==
    IF \E u \in tweets : u[6] = t[6] THEN tweets ELSE tweets \cup {t}

\* all_tweets.add(tuple(t))
SetAdd(tweets, t) == tweets \cup {t}

\* for t in temp_list: all_tweets.add(tuple(t))
RECURSIVE AddAll(_, _)
AddAll(tweets, temp_list) ==
    IF temp_list = <<>> THEN tweets
    ELSE AddAll(SetAdd(tweets, Head(temp_list)), Tail(temp_list))

\* any(re.search(r'\b' + f + r'\b', v, re.I) for f in filter_terms), from
\* the i-th term on: "True", "False", or "TypeError" when re.search raises
RECURSIVE AnyTerm(_, _)
AnyTerm(v, i) ==
    IF i > Len(filter_terms) THEN "False"
    ELSE LET r == re_search(filter_terms[i], v)
         IN  IF r = "TypeError" THEN "TypeError"
             ELSE IF r = "Match" THEN "True"
             ELSE AnyTerm(v, i + 1)

\* the condition with  and  in the place of  or
Condition_And(tweet) ==
    LET loc == AnyTerm(tweet[4][2], 1)
    IN  IF loc \in {"False", "TypeError"} THEN loc ELSE AnyTerm(tweet[5][2], 1)

\* the condition with absent fields guarded: None matches nothing
Condition_Guarded(tweet) ==
    LET field(v) == IF IsStr(v) THEN AnyTerm(v, 1) ELSE "False"
    IN  IF field(tweet[4][2]) = "True" THEN "True" ELSE field(tweet[5][2])

\* any(... tweet[3][1] ...) or any(... tweet[4][1] ...): the second any() is
\* evaluated only when the first is False
Condition(tweet) ==
    LET loc == AnyTerm(tweet[4][2], 1)
    IN  IF loc \in {"True", "TypeError"} THEN loc ELSE AnyTerm(tweet[5][2], 1)

\* TextBlob(text).sentiment, in hundredths; the scorer is an external function
TextBlobSentiment(text) ==
    IF text = Str("y'all are great") THEN [polarity |-> 80, subjectivity |-> 75]
    ELSE [polarity |-> 0, subjectivity |-> 0]

sentiment_saver(individual_tweet) ==
    [polarity     |-> Float(TextBlobSentiment(individual_tweet).polarity),
     subjectivity |-> Float(TextBlobSentiment(individual_tweet).subjectivity)]

(* ---------------------------------------------------------------------- *)
(* The csv module and the destination file                                 *)
(* ---------------------------------------------------------------------- *)

fieldnames == metadata_fields \o <<"text", "polarity", "subjectivity">>

\* repr() of the scores TextBlobSentiment gives
FloatRepr(h) ==
    CASE h = 0 -> "0.0"
      [] h = 75 -> "0.75"
      [] h = 80 -> "0.8"

\* the text csv.writer puts in a cell: None is written as the empty string
CellText(v) ==
    CASE v[1] = "NoneType" -> ""
      [] v[1] = "str" -> v[2]
      [] v[1] = "float" -> FloatRepr(v[2])

\* DictWriter._dict_to_list with extrasaction='raise': the keys that are
\* not field names
WrongFields(rowdict) == {k \in DOMAIN rowdict : \A i \in DOMAIN fieldnames : fieldnames[i] # k}

\* the cells of one row, in fieldnames order, a missing key as restval ''
RowCells(rowdict) ==
    [i \in 1..Len(fieldnames) |->
        IF fieldnames[i] \in DOMAIN rowdict THEN CellText(rowdict[fieldnames[i]]) ELSE ""]

\* writeheader() left out
HeaderRows_Omitted == <<>>

\* writeheader(): one row holding the field names
HeaderRows == <<fieldnames>>

\* open(parser.f, 'a'): an existing file keeps its rows
OpenedFile_Append(f) == [exists |-> TRUE, rows |-> f.rows]

\* open(parser.f, 'w'): the file is created or truncated
OpenedFile(f) == [exists |-> TRUE, rows |-> <<>>]

\* the with statement that closes only on a normal exit
WithExit_LeakOnError(h, raised) == IF raised THEN h ELSE "closed"

\* __exit__ of the with statement: the handle is closed, raised or not
WithExit(h, raised) == "closed"

\* the destination before the run: no file, or the output of an earlier run
NoFile == [exists |-> FALSE, rows |-> <<>>]

EarlierOutput ==
    [exists |-> TRUE,
     rows   |-> <<fieldnames, <<"Sun", "Ann", "old", "", "", "bye", "0.0", "0.0">>>>]

(* ---------------------------------------------------------------------- *)
(* State                                                                   *)
(* ---------------------------------------------------------------------- *)

VARIABLES
    pc,            \* where main() is: "main", "scraper", "filter", "write_to_csv",
                   \* "writeheader", "writerows", "done", "aborted"
    error,         \* the uncaught exception that ended the run, and where it rose
    parser_n,      \* parser.n
    authorized,    \* auth.get_authorization_url() returned
    api,           \* what start_api() returned
    stdout,        \* the lines printed
    issued,        \* the searches given to Cursor(api.search, ...)
    fetched,       \* every status._json the searches returned
    all_tweets,    \* the set scraper() builds
    todo,          \* the tweets filter() has still to visit
    saved_tweets,  \* the list filter() builds
    csvfile,       \* the file at parser.f
    before,        \* the file at parser.f when the run began
    handle,        \* the handle of write_to_csv(): "unopened", "open", "closed"
    written        \* the rows writerows() has written

vars == <<pc, error, parser_n, authorized, api, stdout, issued, fetched, all_tweets,
          todo, saved_tweets, csvfile, before, handle, written>>

NoError == [type |-> "", in |-> ""]

Raised(type, place) == [type |-> type, in |-> place]

Init ==
    /\ pc = "main"
    /\ error = NoError
    /\ parser_n \in 1..MaxN
    /\ authorized = FALSE
    /\ api = "none"
    /\ stdout = <<>>
    /\ issued = <<>>
    /\ fetched = {}
    /\ all_tweets = {}
    /\ todo = {}
    /\ saved_tweets = <<>>
    /\ before \in {NoFile, EarlierOutput}
    /\ csvfile = before
    /\ handle = "unopened"
    /\ written = 0

(* ---------------------------------------------------------------------- *)
(* scraper                                                                 *)
(* ---------------------------------------------------------------------- *)

\* start_api() whose except clause raises the error again
start_api_Reraise(raised) ==
    IF raised
    THEN [api |-> "none", out |-> "You're not in! API did not connect.",
          error |-> Raised("TweepError", "start_api")]
    ELSE [api |-> "client", out |-> "You're in! API connected.", error |-> NoError]

\* start_api(), raised telling whether auth.get_authorization_url() raised
\* TweepError: the line printed, the API object returned, the error let out
start_api(raised) ==
    [api   |-> "client",
     out   |-> IF raised THEN "You're not in! API did not connect."
                         ELSE "You're in! API connected.",
     error |-> NoError]

\* main() that opens the destination before it collects
Scraper_OpensFirst ==
    /\ pc = "main"
    /\ \E raised \in BOOLEAN :
         LET r == start_api(raised)
         IN  /\ authorized' = ~raised
             /\ api' = r.api
             /\ stdout' = Append(stdout, r.out)
             /\ error' = r.error
             /\ pc' = IF r.error = NoError THEN "scraper" ELSE "aborted"
    /\ all_tweets' = {}
    /\ csvfile' = OpenedFile(csvfile)
    /\ UNCHANGED <<parser_n, issued, fetched, todo, saved_tweets, before, handle, written>>

\* main() calls scraper(my_queries): start_api(), then all_tweets = set()
Scraper ==
    /\ pc = "main"
    /\ \E raised \in BOOLEAN :
         LET r == start_api(raised)
         IN  /\ authorized' = ~raised
             /\ api' = r.api
             /\ stdout' = Append(stdout, r.out)
             /\ error' = r.error
             /\ pc' = IF r.error = NoError THEN "scraper" ELSE "aborted"
    /\ all_tweets' = {}
    /\ UNCHANGED <<parser_n, issued, fetched, todo, saved_tweets, csvfile, before,
                   handle, written>>

\* one turn of  for search in queries  whose search returns results; after
\* the last query scraper() returns and main() calls filter()
Search ==
    /\ pc = "scraper"
    /\ Len(issued) < Len(my_queries)
    /\ issued' = Append(issued, my_queries[Len(issued) + 1])
    /\ \E results \in SeqsUpTo(Statuses, parser_n) :
         LET temp_list == [i \in 1..Len(results) |-> get_data(results[i])]
         IN  /\ fetched' = fetched \cup Range(results)
             /\ all_tweets' = AddAll(all_tweets, temp_list)
    /\ IF Len(issued') = Len(my_queries)
       THEN /\ pc' = "filter"
            /\ todo' = all_tweets'
            /\ saved_tweets' = <<>>
       ELSE UNCHANGED <<pc, todo, saved_tweets>>
    /\ UNCHANGED <<error, parser_n, authorized, api, stdout, csvfile, before, handle,
                   written>>

\* one turn of  for search in queries  whose search raises TweepError, which
\* nothing catches
SearchFails ==
    /\ pc = "scraper"
    /\ Len(issued) < Len(my_queries)
    /\ issued' = Append(issued, my_queries[Len(issued) + 1])
    /\ pc' = "aborted"
    /\ error' = Raised("TweepError", "scraper")
    /\ UNCHANGED <<parser_n, authorized, api, stdout, fetched, all_tweets, todo,
                   saved_tweets, csvfile, before, handle, written>>

(* ---------------------------------------------------------------------- *)
(* filter                                                                  *)
(* ---------------------------------------------------------------------- *)

\* one turn of  for tweet in tweet_tup ; a set is visited in no fixed order
FilterTweet ==
    /\ pc = "filter"
    /\ \E tweet \in todo :
         LET c == Condition(tweet)
             current_tweet == DictOf(tweet)
         IN  IF c = "TypeError"
             THEN /\ pc' = "aborted"
                  /\ error' = Raised("TypeError", "filter")
                  /\ UNCHANGED <<todo, saved_tweets>>
             ELSE /\ todo' = todo \ {tweet}
                  /\ saved_tweets' =
                        IF c = "True"
                        THEN Append(saved_tweets,
                                    Update(current_tweet,
                                           sentiment_saver(current_tweet["text"])))
                        ELSE saved_tweets
                  /\ UNCHANGED <<pc, error>>
    /\ UNCHANGED <<parser_n, authorized, api, stdout, issued, fetched, all_tweets,
                   csvfile, before, handle, written>>

\* the loop is over: filter() returns saved_tweets, main() calls write_to_csv()
FilterReturn ==
    /\ pc = "filter"
    /\ todo = {}
    /\ pc' = "write_to_csv"
    /\ UNCHANGED <<error, parser_n, authorized, api, stdout, issued, fetched,
                   all_tweets, todo, saved_tweets, csvfile, before, handle, written>>

(* ---------------------------------------------------------------------- *)
(* write_to_csv                                                            *)
(* ---------------------------------------------------------------------- *)

\* with open(parser.f, 'w', encoding='utf-8') as csvfile
Open ==
    /\ pc = "write_to_csv"
    /\ csvfile' = OpenedFile(csvfile)
    /\ handle' = "open"
    /\ pc' = "writeheader"
    /\ UNCHANGED <<error, parser_n, authorized, api, stdout, issued, fetched,
                   all_tweets, todo, saved_tweets, before, written>>

\* open() raises OSError: there is no handle and no file is touched
OpenFails ==
    /\ pc = "write_to_csv"
    /\ pc' = "aborted"
    /\ error' = Raised("OSError", "open")
    /\ UNCHANGED <<parser_n, authorized, api, stdout, issued, fetched, all_tweets,
                   todo, saved_tweets, csvfile, before, handle, written>>

\* writer.writeheader()
WriteHeader ==
    /\ pc = "writeheader"
    /\ csvfile' = [csvfile EXCEPT !.rows = @ \o HeaderRows]
    /\ written' = 0
    /\ pc' = "writerows"
    /\ UNCHANGED <<error, parser_n, authorized, api, stdout, issued, fetched,
                   all_tweets, todo, saved_tweets, before, handle>>

\* writer.writerows(final_tweets), one row: ValueError when the dictionary
\* has a key that is no field name, else the row is written
WriteRow ==
    /\ pc = "writerows"
    /\ written < Len(saved_tweets)
    /\ LET rowdict == saved_tweets[written + 1]
       IN  IF WrongFields(rowdict) # {}
           THEN /\ pc' = "aborted"
                /\ error' = Raised("ValueError", "writerows")
                /\ handle' = WithExit(handle, TRUE)
                /\ UNCHANGED <<csvfile, written>>
           ELSE /\ csvfile' = [csvfile EXCEPT !.rows = Append(@, RowCells(rowdict))]
                /\ written' = written + 1
                /\ UNCHANGED <<pc, error, handle>>
    /\ UNCHANGED <<parser_n, authorized, api, stdout, issued, fetched, all_tweets,
                   todo, saved_tweets, before>>

\* a write to the open file raises OSError; the with statement closes the
\* handle as the error leaves it
WriteFails ==
    /\ pc \in {"writeheader", "writerows"}
    /\ pc' = "aborted"
    /\ error' = Raised("OSError", pc)
    /\ handle' = WithExit(handle, TRUE)
    /\ UNCHANGED <<parser_n, authorized, api, stdout, issued, fetched, all_tweets,
                   todo, saved_tweets, csvfile, before, written>>

\* every row is written: the message is printed, the with statement ends,
\* write_to_csv() and main() return
Finish ==
    /\ pc = "writerows"
    /\ written = Len(saved_tweets)
    /\ stdout' = Append(stdout, "All done! Your tweets have been saved to parser.f")
    /\ handle' = WithExit(handle, FALSE)
    /\ pc' = "done"
    /\ UNCHANGED <<error, parser_n, authorized, api, issued, fetched, all_tweets,
                   todo, saved_tweets, csvfile, before, written>>

Next ==
    \/ Scraper
    \/ Search
    \/ SearchFails
    \/ FilterTweet
    \/ FilterReturn
    \/ Open
    \/ OpenFails
    \/ WriteHeader
    \/ WriteRow
    \/ WriteFails
    \/ Finish

Spec == Init /\ [][Next]_vars

(* ---------------------------------------------------------------------- *)
(* filter() on its own                                                     *)
(* ---------------------------------------------------------------------- *)

\* the values a nullable profile field is drawn from
FieldValues == {None} \cup {Str(s) : s \in Searchable}

\* main() as it calls filter(), the searches having returned one tweet whose
\* location and description are any two field values
InitFilter ==
    /\ pc = "filter"
    /\ error = NoError
    /\ parser_n = 1
    /\ authorized = TRUE
    /\ api = "client"
    /\ stdout = <<"You're in! API connected.">>
    /\ issued = my_queries
    /\ \E location \in FieldValues, description \in FieldValues :
         /\ fetched = {RawStatus(1, "Mon", "ann", location, description, "hello")}
         /\ all_tweets = {get_data(s) : s \in fetched}
    /\ todo = all_tweets
    /\ saved_tweets = <<>>
    /\ before = NoFile
    /\ csvfile = before
    /\ handle = "unopened"
    /\ written = 0

NextFilter ==
    \/ FilterTweet
    \/ FilterReturn

SpecFilter == InitFilter /\ [][NextFilter]_vars

(* ---------------------------------------------------------------------- *)
(* Vocabulary of the properties                                            *)
(* ---------------------------------------------------------------------- *)

\* filter() has returned its list
FilterReturned ==
    \/ pc \in {"write_to_csv", "writeheader", "writerows", "done"}
    \/ pc = "aborted" /\ error.in \in {"open", "writeheader", "writerows"}

\* the value a tweet tuple pairs with the field name
FieldOf(t, name) == DictOf(t)[name]

\* the tweet tuple is in the list filter() built
Saved(t) ==
    \E i \in DOMAIN saved_tweets :
        \A k \in DOMAIN t : saved_tweets[i][t[k][1]] = t[k][2]

\* two characters are the same letter, whatever their case
SameLetter(a, b) ==
    \/ a = b
    \/ \E i \in DOMAIN UpperCase : {a, b} = {UpperCase[i], LowerCase[i]}

\* term occurs in the str value as a whole word, whatever the case
WholeWord(term, value) ==
    LET s == Chars(value[2])
        w == Chars(term)
    IN  \E i \in 1..(Len(s) - Len(w) + 1) :
            /\ \A j \in 1..Len(w) : SameLetter(s[i + j - 1], w[j])
            /\ i = 1 \/ ~IsWord(s[i - 1])
            /\ i + Len(w) - 1 = Len(s) \/ ~IsWord(s[i + Len(w)])

\* some term of filter_terms is found in the field
SomeTermMatches(v) ==
    IsStr(v) /\ \E i \in DOMAIN filter_terms : re_search(filter_terms[i], v) = "Match"

\* the six values of a search result, as the service gave them
SixValues(status) ==
    <<status.user.created_at, status.user.name, status.user.screen_name,
      status.user.location, status.user.description, status.full_text>>

ValuesOf(t) == [k \in DOMAIN t |-> t[k][2]]

HeaderLine ==
    <<"created_at", "name", "screen_name", "location", "description", "text",
      "polarity", "subjectivity">>

(* ---------------------------------------------------------------------- *)
(* Properties                                                              *)
(* ---------------------------------------------------------------------- *)

\* C1: the list filter() returns holds a record of the set if and only if a
\* term matches its location or a term matches its description, and holds
\* nothing else.
C1_DoubleOr ==
    FilterReturned =>
        /\ \A t \in all_tweets :
              Saved(t) <=> \/ SomeTermMatches(FieldOf(t, "location"))
                           \/ SomeTermMatches(FieldOf(t, "description"))
        /\ \A i \in DOMAIN saved_tweets :
              \E t \in all_tweets : \A k \in DOMAIN t : saved_tweets[i][t[k][1]] = t[k][2]

\* filter() returned, keeping one record for its description alone, one for
\* its location alone, and dropping one that matches in neither field
C1_Witness ==
    /\ FilterReturned
    /\ \E t \in all_tweets :
          /\ Saved(t)
          /\ ~SomeTermMatches(FieldOf(t, "location"))
          /\ SomeTermMatches(FieldOf(t, "description"))
    /\ \E t \in all_tweets :
          /\ Saved(t)
          /\ SomeTermMatches(FieldOf(t, "location"))
          /\ ~SomeTermMatches(FieldOf(t, "description"))
    /\ \E t \in all_tweets : ~Saved(t)

\* C2: a term matches a field value exactly when it occurs in it as a whole
\* word, whatever the case: "dc" matches "I live in DC" and not "dcmetro",
\* "GU" matches "GU student" and not "argue".
C2_WholeWordAnyCase ==
    /\ \A t \in all_tweets : \A k \in {4, 5} : \A i \in DOMAIN filter_terms :
          IsStr(t[k][2]) =>
              (re_search(filter_terms[i], t[k][2]) = "Match"
                   <=> WholeWord(filter_terms[i], t[k][2]))
    /\ \A t \in all_tweets : \A k \in {4, 5} :
          /\ t[k][2] = Str("I live in DC") => re_search("dc", t[k][2]) = "Match"
          /\ t[k][2] = Str("dcmetro") => re_search("dc", t[k][2]) = "NoMatch"
          /\ t[k][2] = Str("GU student") => re_search("GU", t[k][2]) = "Match"
          /\ t[k][2] = Str("argue") => re_search("GU", t[k][2]) = "NoMatch"

\* filter() kept a record whose location "dcmetro" no term matches, for the
\* "DC" of its description
C2_Witness ==
    /\ FilterReturned
    /\ \E t \in all_tweets :
          /\ t[4][2] = Str("dcmetro")
          /\ t[5][2] = Str("I live in DC")
          /\ Saved(t)

\* C3: all_tweets holds exactly one member for each distinct tuple of six
\* values the searches returned, and no other member.
C3_OnePerDistinctTuple ==
    /\ \A s \in fetched :
          Cardinality({t \in all_tweets : ValuesOf(t) = SixValues(s)}) = 1
    /\ \A t \in all_tweets : \E s \in fetched : ValuesOf(t) = SixValues(s)
    /\ Cardinality(all_tweets) = Cardinality({SixValues(s) : s \in fetched})

\* two results equal in all six fields and a third differing from them in
\* created_at alone were returned, by more than one query: two members
C3_Witness ==
    /\ Len(issued) >= 2
    /\ \E s1, s2, s3 \in fetched :
          /\ s1 # s2
          /\ SixValues(s1) = SixValues(s2)
          /\ SixValues(s3)[1] # SixValues(s1)[1]
          /\ \A k \in 2..6 : SixValues(s3)[k] = SixValues(s1)[k]
          /\ Cardinality({t \in all_tweets :
                            ValuesOf(t) \in {SixValues(s1), SixValues(s3)}}) = 2

\* C4, as claimed: filter() fails whenever a record of the set has None as
\* its location or as its description, so that it returns only when no
\* record has.
C4_AnyNoneFails ==
    FilterReturned =>
        \A t \in all_tweets :
            FieldOf(t, "location") # None /\ FieldOf(t, "description") # None

\* C4, amended: filter() fails with TypeError whenever a record has None as
\* its location, or has None as its description and a location no term
\* matches (a None description beside a matching location is never searched);
\* and a failure of filter() on these tweets comes with such a record.
C4_NoneFailsUnlessLocationMatches ==
    /\ FilterReturned =>
          \A t \in all_tweets :
              /\ FieldOf(t, "location") # None
              /\ FieldOf(t, "description") = None
                    => SomeTermMatches(FieldOf(t, "location"))
    /\ pc = "aborted" /\ error.in = "filter" =>
          /\ error.type = "TypeError"
          /\ \E t \in all_tweets :
                \/ FieldOf(t, "location") = None
                \/ /\ FieldOf(t, "description") = None
                   /\ ~SomeTermMatches(FieldOf(t, "location"))

\* filter() failed on a record whose location is None and whose description
\* holds a term
C4_Witness ==
    /\ pc = "aborted"
    /\ error = Raised("TypeError", "filter")
    /\ \E t \in all_tweets :
          /\ FieldOf(t, "location") = None
          /\ SomeTermMatches(FieldOf(t, "description"))

\* C5: when write_to_csv() completes, the first row of the file is the
\* header, also when no record passed the filter.
C5_HeaderFirst ==
    pc = "done" => Len(csvfile.rows) >= 1 /\ csvfile.rows[1] = HeaderLine

\* the run completed with no record passing the filter
C5_Witness ==
    /\ pc = "done"
    /\ all_tweets # {}
    /\ saved_tweets = <<>>

\* C6: after a successful run the file holds the header and then one row for
\* each record filter() returned, in that order, and nothing else: what the
\* file held before is gone.
C6_RowsAreTheFilteredRecords ==
    pc = "done" =>
        /\ csvfile.exists
        /\ Len(csvfile.rows) = 1 + Len(saved_tweets)
        /\ Len(saved_tweets) = Cardinality({t \in all_tweets : Saved(t)})
        /\ \A i \in DOMAIN saved_tweets : \A k \in DOMAIN HeaderLine :
              csvfile.rows[i + 1][k] = CellText(saved_tweets[i][HeaderLine[k]])

\* a run over an earlier output completed with two rows or more
C6_Witness ==
    /\ pc = "done"
    /\ before = EarlierOutput
    /\ Len(saved_tweets) >= 2

C8_SixFieldsFixedOrder ==
    /\ \A t \in all_tweets :
          [k \in DOMAIN t |-> t[k][1]]
              = <<"created_at", "name", "screen_name", "location", "description", "text">>
    /\ \A i \in DOMAIN saved_tweets :
          DOMAIN saved_tweets[i] = {HeaderLine[k] : k \in DOMAIN HeaderLine}
    /\ pc \in {"writeheader", "writerows", "done"} => fieldnames = HeaderLine

\* rows were handed to the writer and written
C8_Witness ==
    /\ pc = "done"
    /\ Len(saved_tweets) >= 1
    /\ written = Len(saved_tweets)

\* C9: in every terminal state the handle of write_to_csv() is not open.
C9_HandleClosed ==
    pc \in {"done", "aborted"} => handle # "open"

\* an error rose while the rows were written, some of them already on file
C9_Witness ==
    /\ pc = "aborted"
    /\ error = Raised("OSError", "writerows")
    /\ written >= 1
    /\ handle = "closed"

\* C10: the file is opened only once every query is collected and filter()
\* has returned; a run that ends in scraper() or filter() leaves the
\* destination as it was.
C10_NoOutputBeforeFilterReturns ==
    /\ handle # "unopened" => issued = my_queries /\ todo = {} /\ FilterReturned
    /\ ~FilterReturned => csvfile = before
    /\ pc = "aborted" /\ error.in \in {"start_api", "scraper", "filter"} =>
          csvfile = before /\ handle = "unopened"

\* a run over an earlier output ended in filter() on a None field
C10_Witness ==
    /\ pc = "aborted"
    /\ error = Raised("TypeError", "filter")
    /\ before = EarlierOutput
    /\ csvfile = EarlierOutput

====
